---- MODULE Spec2Model ----
(***************************************************************************)
(* A model of VanGit.py: the object store, the binary index, the tree and  *)
(* commit encodings, status/diff and the master ref.                       *)
(*                                                                         *)
(* Byte strings (Python bytes) and ASCII strings (Python str) are          *)
(* sequences of numbers 0..255; offsets into them are 0-based as in the    *)
(* source, so data[i] of the source is data[i + 1] here.  Every operation  *)
(* of the source that touches the file system takes the file system fs    *)
(* (a record of the working directory, .git/objects, .git/index, the      *)
(* master ref and the log io of the file reads and writes of the running   *)
(* command) and returns [fs, ret, err]: the file system it leaves, its     *)
(* return value, and the exception it raised (NoErr when it returned).     *)
(* The messages of the exceptions are given in English.                    *)
(*                                                                         *)
(* The variables: workdir, objects, index and master are the files; cmd,   *)
(* args, ret, err and io are the last operation run, its arguments, what   *)
(* it returned or raised and the files it opened; commits lists the        *)
(* commits made so far and ncmds counts the commands run.                  *)
(***************************************************************************)
EXTENDS Integers, Sequences, FiniteSets, Bags, TLC

VARIABLES workdir, objects, index, master, cmd, args, ret, err, io, commits, ncmds

vars == <<workdir, objects, index, master, cmd, args, ret, err, io, commits, ncmds>>

(***************************************************************************)
(* String literals of the source, as bytes.                                *)
(***************************************************************************)
B_blob == <<98, 108, 111, 98>>
B_tree == <<116, 114, 101, 101>>
B_commit == <<99, 111, 109, 109, 105, 116>>
B_parent_sp == <<112, 97, 114, 101, 110, 116, 32>>
B_author_sp == <<97, 117, 116, 104, 111, 114, 32>>
B_committer_sp == <<99, 111, 109, 109, 105, 116, 116, 101, 114, 32>>
B_DIRC == <<68, 73, 82, 67>>
B_default_author == <<77, 111, 114, 98, 105, 100, 65, 114, 107, 32, 60, 49, 52, 56, 50, 53, 48, 54, 56, 52, 49, 64, 113, 113, 46, 99, 111, 109, 62>>
B_dot_slash == <<46, 47>>

\* The value a file that does not exist reads as (no byte string starts with -1).
NoFile == <<-1>>
\* Python's None.
None == <<-2>>
NoErr == "ok"

(***************************************************************************)
(* Python's bytes and str primitives.                                      *)
(***************************************************************************)
\* v under the name K gives it: a value computed once and used many times.
With(v, K(_)) == K(v)

Min(S) == CHOOSE x \in S : \A y \in S : x <= y

\* b * n for a one-byte b.
Repeat(b, n) == [k \in 1..n |-> b]

\* data[i:j] for 0 <= i, Python's clamping of j included.
Slice(data, i, j) ==
    LET hi == IF j > Len(data) THEN Len(data) ELSE j
    IN IF i >= hi THEN <<>> ELSE SubSeq(data, i + 1, hi)

\* data.find(b, i): the first offset >= i that holds byte b, or -1.
Find(data, b, i) ==
    IF \E k \in i..(Len(data) - 1) : data[k + 1] = b
    THEN CHOOSE k \in i..(Len(data) - 1) :
            /\ data[k + 1] = b
            /\ \A j \in i..(k - 1) : data[j + 1] # b
    ELSE -1

\* b in data.
Contains(data, b) == \E k \in 1..Len(data) : data[k] = b

\* data.startswith(prefix).
StartsWith(data, prefix) ==
    /\ Len(prefix) <= Len(data)
    /\ SubSeq(data, 1, Len(prefix)) = prefix

\* b''.join(parts[lo..hi]).
RECURSIVE JoinRange(_, _, _)
JoinRange(parts, lo, hi) ==
    IF lo > hi THEN <<>>
    ELSE IF lo = hi THEN parts[lo]
    ELSE LET mid == (lo + hi) \div 2
         IN JoinRange(parts, lo, mid) \o JoinRange(parts, mid + 1, hi)

Join(parts) == JoinRange(parts, 1, Len(parts))

\* sep.join(parts) for a one-byte separator.
JoinWith(sep, parts) ==
    Join([k \in 1..Len(parts) |->
            IF k < Len(parts) THEN parts[k] \o <<sep>> ELSE parts[k]])

\* str(n) / '{}'.format(n) for n >= 0.
RECURSIVE Decimal(_)
Decimal(n) == IF n < 10 THEN <<48 + n>> ELSE Decimal(n \div 10) \o <<48 + (n % 10)>>

\* '{:o}'.format(n) for n >= 0.
RECURSIVE Octal(_)
Octal(n) == IF n < 8 THEN <<48 + n>> ELSE Octal(n \div 8) \o <<48 + (n % 8)>>

\* '{:02}'.format(n) for n >= 0.
Decimal02(n) == IF n < 10 THEN <<48, 48 + n>> ELSE Decimal(n)

IsDigit(c, base) == c >= 48 /\ c < 48 + base

\* int(s, base) for base <= 10 and a string of digits; OK is FALSE where
\* Python raises ValueError (no digits, or a character that is no digit).
RECURSIVE DigitsValue(_, _, _)
DigitsValue(s, base, n) ==
    IF n = 0 THEN 0 ELSE DigitsValue(s, base, n - 1) * base + (s[n] - 48)

ParseInt(s, base) ==
    IF Len(s) > 0 /\ \A k \in 1..Len(s) : IsDigit(s[k], base)
    THEN [ok |-> TRUE, val |-> DigitsValue(s, base, Len(s))]
    ELSE [ok |-> FALSE, val |-> 0]

HexDigit(v) == IF v < 10 THEN 48 + v ELSE 87 + v

\* bytes.hex(): two lowercase hex digits per byte.
Hex(bytes) ==
    [k \in 1..(2 * Len(bytes)) |->
        IF k % 2 = 1 THEN HexDigit(bytes[(k + 1) \div 2] \div 16)
        ELSE HexDigit(bytes[k \div 2] % 16)]

HexValue(c) == IF c >= 97 THEN c - 87 ELSE c - 48

\* bytes.fromhex() of an even number of lowercase hex digits.
FromHex(s) ==
    [k \in 1..(Len(s) \div 2) |-> HexValue(s[2 * k - 1]) * 16 + HexValue(s[2 * k])]

\* The characters str.split() and str.strip() treat as white space (ASCII).
IsSpace(c) == c \in {32, 9, 10, 11, 12, 13, 28, 29, 30, 31}

\* s.split(): the maximal runs of characters that are not white space.
Split(s) ==
    LET starts == {k \in 1..Len(s) :
                     ~IsSpace(s[k]) /\ (k = 1 \/ IsSpace(s[k - 1]))}
        nth(j) == CHOOSE k \in starts : Cardinality({x \in starts : x < k}) = j - 1
        stop(k) == IF \E e \in k..Len(s) : IsSpace(s[e])
                   THEN Min({e \in k..Len(s) : IsSpace(s[e])}) - 1
                   ELSE Len(s)
    IN [j \in 1..Cardinality(starts) |-> SubSeq(s, nth(j), stop(nth(j)))]

\* s.strip(): s without its leading and trailing white space.
Strip(s) ==
    LET keep == {k \in 1..Len(s) : ~IsSpace(s[k])}
    IN IF keep = {} THEN <<>>
       ELSE SubSeq(s, Min(keep), CHOOSE k \in keep : \A x \in keep : x <= k)

\* s.split('\n') is not used by the source; the properties of a commit's
\* lines read its payload this way: the pieces between line feeds.
SplitLines(s) ==
    LET cuts == {k \in 1..Len(s) : s[k] = 10}
        nthcut(j) == IF j = 0 THEN 0
                     ELSE IF j > Cardinality(cuts) THEN Len(s) + 1
                     ELSE CHOOSE k \in cuts : Cardinality({x \in cuts : x < k}) = j - 1
    IN [j \in 1..(Cardinality(cuts) + 1) |->
            SubSeq(s, nthcut(j - 1) + 1, nthcut(j) - 1)]

\* a < b for Python str (code point order) and bytes.
RECURSIVE LessFrom(_, _, _)
LessFrom(a, b, k) ==
    IF k > Len(a) THEN k <= Len(b)
    ELSE IF k > Len(b) THEN FALSE
    ELSE IF a[k] # b[k] THEN a[k] < b[k]
    ELSE LessFrom(a, b, k + 1)

Less(a, b) == LessFrom(a, b, 1)

\* sorted(S) of a set of strings.
RECURSIVE SortedSet(_)
SortedSet(S) ==
    IF S = {} THEN <<>>
    ELSE LET m == CHOOSE x \in S : \A y \in S : x = y \/ Less(x, y)
         IN <<m>> \o SortedSet(S \ {m})

(***************************************************************************)
(* hashlib.sha1 and zlib.  SHA-1 itself is out of reach of the model       *)
(* checker: Sha1 stands for it, a deterministic function from bytes to 20  *)
(* bytes built from five position-weighted checksums and the length.  Its  *)
(* first two bytes are the plain byte sum, so that two payloads that are   *)
(* permutations of one another share their first four hex digits, as two   *)
(* SHA-1 digests may.  zlib.compress is an opaque wrapper that only        *)
(* zlib.decompress opens.                                                  *)
(***************************************************************************)
Weight(w, i) ==
    CASE w = 0 -> 1
      [] w = 1 -> (i % 251) + 1
      [] w = 2 -> ((i * i) % 241) + 1
      [] w = 3 -> ((7 * i + 3) % 239) + 1
      [] OTHER -> ((i * i + 5 * i) % 233) + 1

\* The sum of m[i] * Weight(w, i) over the bytes of m, modulo 65521.  The
\* sum is taken as the size of the bag that holds m[i] * Weight(w, i) + 1
\* copies of each i.
WSum(m, w) ==
    (BagCardinality([i \in 1..Len(m) |-> m[i] * Weight(w, i) + 1]) - Len(m)) % 65521

Sha1Mix(a0, a1, a2, a3, a4, n) ==
    << a0 % 256, a0 \div 256, a1 % 256, a1 \div 256,
       a2 % 256, a2 \div 256, a3 % 256, a3 \div 256,
       a4 % 256, a4 \div 256, n % 256, (n \div 256) % 256,
       (a1 + 3 * a2) % 256, (a2 + 5 * a3) % 256,
       (a3 + 7 * a4) % 256, (a4 + 11 * a1) % 256,
       (a0 + a2 + n) % 256, (a1 + a3 + n) % 256,
       (a0 + a4 + 13 * n) % 256, (a0 + a1 + a2 + a3 + a4) % 256 >>

Sha1(m) ==
    Sha1Mix(WSum(m, 0), WSum(m, 1), WSum(m, 2), WSum(m, 3), WSum(m, 4), Len(m))

Compress(data) == [zlib |-> data]
Decompress(z) == z.zlib

(***************************************************************************)
(* The file system.                                                        *)
(*   workdir: path -> [data, mode], the files of the working directory     *)
(*   objects: 40 hex digits -> compressed bytes; the file of digest h is   *)
(*            .git/objects/h[:2]/h[2:], and a shard directory exists       *)
(*            exactly when it holds a file (hash_object makes the          *)
(*            directory and the file together, and nothing removes one)    *)
(*   index, master: the bytes of .git/index and .git/refs/heads/master,    *)
(*            NoFile when the file does not exist                          *)
(*   io: the files the running command opened, in order                    *)
(***************************************************************************)
FS == [workdir |-> workdir, objects |-> objects, index |-> index,
       master |-> master, io |-> <<>>]

Logged(fs, event) == [fs EXCEPT !.io = Append(@, event)]

Result(fs, r, e) == [fs |-> fs, ret |-> r, err |-> e]

\* write_file(os.path.join('.git', 'objects', sha1[:2], sha1[2:]), data)
write_file_object(fs, sha1, data) ==
    [Logged(fs, "w:objects") EXCEPT
        !.objects = [h \in (DOMAIN fs.objects) \cup {sha1} |->
                        IF h = sha1 THEN data ELSE fs.objects[h]]]

\* A hash_object without the os.path.exists test: it writes at every call.
hash_object_nocheck(fs, data, object_type, write) ==
    LET header == object_type \o <<32>> \o Decimal(Len(data))
        full_data == header \o <<0>> \o data
        sha1 == Hex(Sha1(full_data))
    IN Result(IF write THEN write_file_object(fs, sha1, Compress(full_data)) ELSE fs,
              sha1, NoErr)

hash_object(fs, data, object_type, write) ==
    LET header == object_type \o <<32>> \o Decimal(Len(data))
        full_data == header \o <<0>> \o data
        sha1 == Hex(Sha1(full_data))
    IN Result(IF write /\ sha1 \notin DOMAIN fs.objects
              THEN write_file_object(fs, sha1, Compress(full_data))
              ELSE fs,
              sha1, NoErr)

\* os.listdir(os.path.join('.git', 'objects', shard)); ok is FALSE where it
\* raises FileNotFoundError.
listdir_objects(fs, shard) ==
    LET names == {Slice(h, 2, Len(h)) : h \in {x \in DOMAIN fs.objects : Slice(x, 0, 2) = shard}}
    IN [ok |-> names # {}, names |-> names]

find_object(fs, sha1_prefix) ==
    IF Len(sha1_prefix) < 2
    THEN Result(fs, None, "ValueError: hash prefix must be 2 or more characters")
    ELSE LET obj_dir == Slice(sha1_prefix, 0, 2)
             rest == Slice(sha1_prefix, 2, Len(sha1_prefix))
             dir == listdir_objects(fs, obj_dir)
             objs == {name \in dir.names : StartsWith(name, rest)}
         IN IF ~dir.ok THEN Result(fs, None, "FileNotFoundError")
            ELSE IF objs = {} THEN Result(fs, None, "ValueError: object not found")
            ELSE IF Cardinality(objs) >= 2
            THEN Result(fs, None, "ValueError: multiple objects with prefix")
            ELSE Result(fs, obj_dir \o (CHOOSE name \in objs : TRUE), NoErr)

read_object(fs, sha1_prefix) ==
    LET found == find_object(fs, sha1_prefix)
        fs1 == Logged(fs, "r:objects")
        full_data == Decompress(fs.objects[found.ret])
        nul_index == Find(full_data, 0, 0)
        header == Slice(full_data, 0, nul_index)
        fields == Split(header)
        size == ParseInt(fields[2], 10)
        data == Slice(full_data, nul_index + 1, Len(full_data))
    IN IF found.err # NoErr THEN found
       ELSE IF nul_index = -1 THEN Result(fs1, None, "ValueError: subsection not found")
       ELSE IF Len(fields) # 2 THEN Result(fs1, None, "ValueError: unpack")
       ELSE IF ~size.ok THEN Result(fs1, None, "ValueError: invalid literal for int()")
       ELSE IF size.val # Len(data) THEN Result(fs1, None, "AssertionError: size")
       ELSE Result(fs1, [obj_type |-> fields[1], data |-> data], NoErr)

(***************************************************************************)
(* struct.pack / struct.unpack, big-endian ('!').  Python raises            *)
(* struct.error for a value outside the field; the model's numbers are      *)
(* below 2^31, so for 'L' that leaves the negative ones.                    *)
(***************************************************************************)
PackL(v) == << v \div 16777216, (v \div 65536) % 256, (v \div 256) % 256, v % 256 >>
PackH(v) == << v \div 256, v % 256 >>
\* '20s': cut to 20 bytes, or padded to 20 with nulls.
Pack20s(b) == Slice(b, 0, 20) \o Repeat(0, 20 - Len(Slice(b, 0, 20)))

FitsL(v) == v >= 0
FitsH(v) == v >= 0 /\ v < 65536

UnpackL(b, i) == b[i + 1] * 16777216 + b[i + 2] * 65536 + b[i + 3] * 256 + b[i + 4]
UnpackH(b, i) == b[i + 1] * 256 + b[i + 2]

\* The ten 'L' fields of an index entry, in the order of '!LLLLLLLLLL20sH'.
LongFields(e) ==
    << e.ctime_s, e.ctime_n, e.mtime_s, e.mtime_n, e.dev,
       e.ino, e.mode, e.uid, e.gid, e.size >>

\* struct.pack('!LLLLLLLLLL20sH', ...) of an entry: 62 bytes.
PackEntryHead(e) ==
    Join([k \in 1..10 |-> PackL(LongFields(e)[k])]) \o Pack20s(e.sha1) \o PackH(e.flags)

EntryFits(e) ==
    /\ \A k \in 1..10 : FitsL(LongFields(e)[k])
    /\ FitsH(e.flags)

\* IndexEntry(*(struct.unpack('!LLLLLLLLLL20sH', b) + (path,)))
UnpackEntry(b, path) ==
    [ctime_s |-> UnpackL(b, 0), ctime_n |-> UnpackL(b, 4),
     mtime_s |-> UnpackL(b, 8), mtime_n |-> UnpackL(b, 12),
     dev |-> UnpackL(b, 16), ino |-> UnpackL(b, 20), mode |-> UnpackL(b, 24),
     uid |-> UnpackL(b, 28), gid |-> UnpackL(b, 32), size |-> UnpackL(b, 36),
     sha1 |-> Slice(b, 40, 60), flags |-> UnpackH(b, 60), path |-> path]

(***************************************************************************)
(* The index file.                                                         *)
(***************************************************************************)
\* The while loop of read_index from offset i on.
RECURSIVE read_entries(_, _, _)
read_entries(entry_data, i, entries) ==
    IF ~(i + 62 < Len(entry_data)) THEN [ret |-> entries, err |-> NoErr]
    ELSE LET fields_end == i + 62
             path_end == Find(entry_data, 0, fields_end)
             path == Slice(entry_data, fields_end, path_end)
             entry == UnpackEntry(Slice(entry_data, i, fields_end), path)
         IN IF path_end = -1
            THEN [ret |-> entries, err |-> "ValueError: subsection not found"]
            ELSE LET entry_len == ((62 + Len(path) + 8) \div 8) * 8
                 IN read_entries(entry_data, i + entry_len, Append(entries, entry))

read_index(fs) ==
    LET fs1 == Logged(fs, "r:index")
        data == fs.index
        n == Len(data)
        body == IF n < 20 THEN <<>> ELSE Slice(data, 0, n - 20)
        tail == IF n < 20 THEN data ELSE Slice(data, n - 20, n)
        signature == Slice(data, 0, 4)
        version == UnpackL(data, 4)
        num_entries == UnpackL(data, 8)
        entry_data == IF n < 32 THEN <<>> ELSE Slice(data, 12, n - 20)
        parsed == read_entries(entry_data, 0, <<>>)
    IN IF data = NoFile THEN Result(fs1, <<>>, NoErr)
       ELSE IF Sha1(body) # tail
       THEN Result(fs1, None, "AssertionError: invalid index checksum")
       ELSE IF n < 12 THEN Result(fs1, None, "struct.error")
       ELSE IF signature # B_DIRC
       THEN Result(fs1, None, "AssertionError: invalid index signature")
       ELSE IF version # 2 THEN Result(fs1, None, "AssertionError: unknown index version")
       ELSE IF parsed.err # NoErr THEN Result(fs1, None, parsed.err)
       ELSE IF Len(parsed.ret) # num_entries THEN Result(fs1, None, "AssertionError")
       ELSE Result(fs1, parsed.ret, NoErr)

\* One packed entry, with the padding that is left out when the entry is
\* already a multiple of 8 bytes long.
packed_entry_unpadded(entry) ==
    LET path == entry.path
        length == ((62 + Len(path) + 7) \div 8) * 8
    IN PackEntryHead(entry) \o path \o Repeat(0, length - 62 - Len(path))

\* One packed entry (the body of the loop of write_index).
packed_entry(entry) ==
    LET path == entry.path
        length == ((62 + Len(path) + 8) \div 8) * 8
    IN PackEntryHead(entry) \o path \o Repeat(0, length - 62 - Len(path))

write_index(fs, entries) ==
    LET packed_entries == [k \in 1..Len(entries) |-> packed_entry(entries[k])]
        header == B_DIRC \o PackL(2) \o PackL(Len(entries))
        all_data == header \o Join(packed_entries)
        digest == Sha1(all_data)
    IN IF \E k \in 1..Len(entries) : ~EntryFits(entries[k])
       THEN Result(fs, None, "struct.error")
       ELSE Result([Logged(fs, "w:index") EXCEPT !.index = all_data \o digest],
                   None, NoErr)

(***************************************************************************)
(* add.                                                                    *)
(***************************************************************************)
\* p.replace('\\', '/')
replace_backslash(p) == [k \in 1..Len(p) |-> IF p[k] = 92 THEN 47 ELSE p[k]]

\* os.stat(path) of a file of the working directory.  The model keeps a
\* file's bytes and mode; its times, device, inode and owner are fixed.
os_stat(fs, path) ==
    [st_ctime |-> 1700000000, st_mtime |-> 1700000000, st_dev |-> 2049,
     st_ino |-> 4096 + WSum(path, 1),
     st_mode |-> fs.workdir[path].mode, st_uid |-> 1000, st_gid |-> 1000,
     st_size |-> Len(fs.workdir[path].data)]

\* The for loop of add from paths[k] on: entries is the list built so far.
RECURSIVE add_loop(_, _, _, _)
add_loop(fs, paths, k, entries) ==
    IF k > Len(paths) THEN Result(fs, entries, NoErr)
    ELSE LET path == paths[k]
             fs1 == Logged(fs, "r:workdir")
         IN IF path \notin DOMAIN fs.workdir
            THEN Result(fs1, entries, "FileNotFoundError")
            ELSE LET hashed == hash_object(fs1, fs.workdir[path].data, B_blob, TRUE)
                     st == os_stat(fs, path)
                     flags == Len(path)
                     entry == [ctime_s |-> st.st_ctime, ctime_n |-> 0,
                               mtime_s |-> st.st_mtime, mtime_n |-> 0,
                               dev |-> st.st_dev, ino |-> st.st_ino,
                               mode |-> st.st_mode, uid |-> st.st_uid,
                               gid |-> st.st_gid, size |-> st.st_size,
                               sha1 |-> FromHex(hashed.ret), flags |-> flags,
                               path |-> path]
                 IN IF ~(flags < 4096) THEN Result(hashed.fs, entries, "AssertionError")
                    ELSE add_loop(hashed.fs, paths, k + 1, Append(entries, entry))

\* entries.sort(key=operator.attrgetter('path')): a stable sort.
RECURSIVE sort_by_path(_)
sort_by_path(entries) ==
    IF Len(entries) <= 1 THEN entries
    ELSE LET n == Len(entries)
             head == sort_by_path(SubSeq(entries, 1, n - 1))
             e == entries[n]
             keep == Cardinality({i \in 1..(n - 1) : ~Less(e.path, head[i].path)})
         IN SubSeq(head, 1, keep) \o <<e>> \o SubSeq(head, keep + 1, n - 1)

add(fs, paths0) ==
    LET paths == [k \in 1..Len(paths0) |-> replace_backslash(paths0[k])]
        named == {paths[k] : k \in 1..Len(paths)}
        idx == read_index(fs)
        all_entries == idx.ret
        entries == SelectSeq(all_entries, LAMBDA e : e.path \notin named)
        looped == add_loop(idx.fs, paths, 1, entries)
    IN IF idx.err # NoErr THEN idx
       ELSE IF looped.err # NoErr THEN Result(looped.fs, None, looped.err)
       ELSE write_index(looped.fs, sort_by_path(looped.ret))

(***************************************************************************)
(* ls_files, get_status, diff.                                             *)
(***************************************************************************)
\* '{:6o}'.format(n): octal, right-aligned in six columns.
Octal6(n) == Repeat(32, 6 - Len(Octal(n))) \o Octal(n)

ls_files(fs, details) ==
    LET idx == read_index(fs)
        line(entry) ==
            IF details
            THEN LET stage == (entry.flags \div 4096) % 4
                 IN Octal6(entry.mode) \o <<32>> \o Hex(entry.sha1) \o <<32>>
                    \o Decimal(stage) \o <<9>> \o entry.path
            ELSE entry.path
    IN IF idx.err # NoErr THEN idx
       ELSE Result(idx.fs, [k \in 1..Len(idx.ret) |-> line(idx.ret[k])], NoErr)

\* The paths os.walk('.') yields for the files outside .git, as the loop of
\* get_status rewrites them.
walk_paths(fs) ==
    { LET path == replace_backslash(B_dot_slash \o p)
      IN IF StartsWith(path, B_dot_slash) THEN Slice(path, 2, Len(path)) ELSE path
      : p \in DOMAIN fs.workdir }

\* {e.path: e for e in entries}: the last entry of a path is the one kept.
by_path(entries) ==
    [p \in {entries[k].path : k \in 1..Len(entries)} |->
        entries[CHOOSE k \in 1..Len(entries) :
                    /\ entries[k].path = p
                    /\ \A j \in (k + 1)..Len(entries) : entries[j].path # p]]

\* A get_status with new and deleted the wrong way round.
get_status_swapped(fs) ==
    LET paths == walk_paths(fs)
        idx == read_index(fs)
        entries_by_path == by_path(idx.ret)
        entry_paths == DOMAIN entries_by_path
        both == paths \cap entry_paths
        changed == {p \in both :
                      hash_object(fs, fs.workdir[p].data, B_blob, FALSE).ret
                          # Hex(entries_by_path[p].sha1)}
        new == entry_paths \ paths
        deleted == paths \ entry_paths
        fs1 == [idx.fs EXCEPT !.io = @ \o [k \in 1..Cardinality(both) |-> "r:workdir"]]
    IN IF idx.err # NoErr THEN idx
       ELSE IF \E p \in both : p \notin DOMAIN fs.workdir
       THEN Result(idx.fs, None, "FileNotFoundError")
       ELSE Result(fs1, [changed |-> SortedSet(changed), new |-> SortedSet(new),
                         deleted |-> SortedSet(deleted)], NoErr)

get_status(fs) ==
    LET paths == walk_paths(fs)
        idx == read_index(fs)
        entries_by_path == by_path(idx.ret)
        entry_paths == DOMAIN entries_by_path
        both == paths \cap entry_paths
        changed == {p \in both :
                      hash_object(fs, fs.workdir[p].data, B_blob, FALSE).ret
                          # Hex(entries_by_path[p].sha1)}
        new == paths \ entry_paths
        deleted == entry_paths \ paths
        fs1 == [idx.fs EXCEPT !.io = @ \o [k \in 1..Cardinality(both) |-> "r:workdir"]]
    IN IF idx.err # NoErr THEN idx
       ELSE IF \E p \in both : p \notin DOMAIN fs.workdir
       THEN Result(idx.fs, None, "FileNotFoundError")
       ELSE Result(fs1, [changed |-> SortedSet(changed), new |-> SortedSet(new),
                         deleted |-> SortedSet(deleted)], NoErr)

B_index_label == <<32, 40, 105, 110, 100, 101, 120, 41>>
B_working_label == <<32, 40, 119, 111, 114, 107, 105, 110, 103, 32, 99, 111, 112, 121, 41>>

\* The for loop of diff from changed[i] on.  What difflib prints is not
\* modelled: out collects, per changed path, the two labels and the two
\* texts handed to difflib.unified_diff.
RECURSIVE diff_loop(_, _, _, _, _)
diff_loop(fs, changed, entries_by_path, i, out) ==
    IF i > Len(changed) THEN Result(fs, out, NoErr)
    ELSE With(changed[i], LAMBDA path :
         With(read_object(fs, Hex(entries_by_path[path].sha1)), LAMBDA obj :
           IF obj.err # NoErr THEN Result(obj.fs, None, obj.err)
           ELSE IF obj.ret.obj_type # B_blob THEN Result(obj.fs, None, "AssertionError")
           ELSE IF path \notin DOMAIN fs.workdir
           THEN Result(Logged(obj.fs, "r:workdir"), None, "FileNotFoundError")
           ELSE diff_loop(Logged(obj.fs, "r:workdir"), changed, entries_by_path, i + 1,
                          Append(out, [fromfile |-> path \o B_index_label,
                                       tofile |-> path \o B_working_label,
                                       index_text |-> obj.ret.data,
                                       working_text |-> fs.workdir[path].data]))))

diff(fs) ==
    With(get_status(fs), LAMBDA status :
      IF status.err # NoErr THEN status
      ELSE
        With(read_index(status.fs), LAMBDA idx :
          IF idx.err # NoErr THEN idx
          ELSE diff_loop(idx.fs, status.ret.changed, by_path(idx.ret), 1, <<>>)))

(***************************************************************************)
(* write_tree, read_tree.                                                  *)
(***************************************************************************)
\* The number of entries read_tree scans at most: range(1000).
MaxTreeEntries == 1000

\* mode_path + b'\x00' + entry.sha1
tree_entry(entry) ==
    Octal(entry.mode) \o <<32>> \o entry.path \o <<0>> \o entry.sha1

\* The loop of write_tree and its b''.join: the payload of the tree of
\* entries, or the assertion that fails on a path with a '/'.
tree_payload(entries) ==
    IF \E k \in 1..Len(entries) : Contains(entries[k].path, 47)
    THEN [ret |-> None, err |-> "AssertionError: only a single top-level directory"]
    ELSE [ret |-> Join([k \in 1..Len(entries) |-> tree_entry(entries[k])]),
          err |-> NoErr]

\* A write_tree that opens the index a second time before it uses it.
write_tree_reread(fs) ==
    With(read_index(read_index(fs).fs), LAMBDA idx :
      IF idx.err # NoErr THEN idx
      ELSE
        With(tree_payload(idx.ret), LAMBDA payload :
          IF payload.err # NoErr THEN Result(idx.fs, None, payload.err)
          ELSE hash_object(idx.fs, payload.ret, B_tree, TRUE)))

write_tree(fs) ==
    With(read_index(fs), LAMBDA idx :
      IF idx.err # NoErr THEN idx
      ELSE
        With(tree_payload(idx.ret), LAMBDA payload :
          IF payload.err # NoErr THEN Result(idx.fs, None, payload.err)
          ELSE hash_object(idx.fs, payload.ret, B_tree, TRUE)))

\* One pass of the for loop of read_tree.  st is [i, entries, done, err]:
\* done once the loop has hit its break or raised.
read_tree_step(data, st) ==
    IF st.done THEN st
    ELSE LET end == Find(data, 0, st.i)
             fields == Split(Slice(data, st.i, end))
             mode == ParseInt(fields[1], 8)
             digest == Slice(data, end + 1, end + 21)
         IN IF end = -1 THEN [st EXCEPT !.done = TRUE]
            ELSE IF Len(fields) # 2
            THEN [st EXCEPT !.done = TRUE, !.err = "ValueError: unpack"]
            ELSE IF ~mode.ok
            THEN [st EXCEPT !.done = TRUE, !.err = "ValueError: invalid literal for int()"]
            ELSE [st EXCEPT !.i = end + 1 + 20,
                            !.entries = Append(@, <<mode.val, fields[2], Hex(digest)>>)]

\* n passes of the loop, one after the other; none is left to make once the
\* loop is done.
RECURSIVE read_tree_loop(_, _, _)
read_tree_loop(data, st, n) ==
    IF n = 0 THEN st
    ELSE IF n = 1 THEN read_tree_step(data, st)
    ELSE LET half == read_tree_loop(data, st, n \div 2)
         IN IF half.done THEN half
            ELSE read_tree_loop(data, half, n - (n \div 2))

\* read_tree(data=data)
read_tree_data(data) ==
    LET st == read_tree_loop(data, [i |-> 0, entries |-> <<>>, done |-> FALSE,
                                    err |-> NoErr], MaxTreeEntries)
    IN [ret |-> IF st.err = NoErr THEN st.entries ELSE None, err |-> st.err]

\* read_tree(sha1=sha1)
read_tree(fs, sha1) ==
    LET obj == read_object(fs, sha1)
        decoded == read_tree_data(obj.ret.data)
    IN IF obj.err # NoErr THEN obj
       ELSE IF obj.ret.obj_type # B_tree THEN Result(obj.fs, None, "AssertionError")
       ELSE Result(obj.fs, decoded.ret, decoded.err)

(***************************************************************************)
(* get_local_master_hash, commit.                                          *)
(***************************************************************************)
\* A get_local_master_hash that never finds the ref.
get_local_master_hash_none(fs) == Result(Logged(fs, "r:master"), None, NoErr)

get_local_master_hash(fs) ==
    IF fs.master = NoFile THEN Result(Logged(fs, "r:master"), None, NoErr)
    ELSE Result(Logged(fs, "r:master"), Strip(fs.master), NoErr)

\* The lines of the commit object, joined: 'tree' + tree, the parent line if
\* there is a parent, author, committer, an empty line, the message and the
\* empty string that ends the text with a newline.
commit_data(tree, parent, message, author0, timestamp, timezone) ==
    LET author == IF author0 = None THEN B_default_author ELSE author0
        utc_offset == -timezone
        abs == IF utc_offset < 0 THEN -utc_offset ELSE utc_offset
        author_time == Decimal(timestamp) \o <<32>>
                       \o <<IF utc_offset > 0 THEN 43 ELSE 45>>
                       \o Decimal02(abs \div 3600) \o Decimal02((abs \div 60) % 60)
        lines == <<B_tree \o tree>>
                 \o (IF parent # None /\ parent # <<>>
                     THEN <<B_parent_sp \o parent>> ELSE <<>>)
                 \o << B_author_sp \o author \o <<32>> \o author_time,
                       B_committer_sp \o author \o <<32>> \o author_time,
                       <<>>, message, <<>> >>
    IN JoinWith(10, lines)

\* timestamp is int(time.mktime(time.localtime())) and timezone is
\* time.timezone, as the clock of the machine gives them.
commit(fs, message, author0, timestamp, timezone) ==
    With(write_tree(fs), LAMBDA wt :
      IF wt.err # NoErr THEN wt
      ELSE
        With(get_local_master_hash(wt.fs), LAMBDA head :
        With(hash_object(head.fs,
                         commit_data(wt.ret, head.ret, message, author0,
                                     timestamp, timezone),
                         B_commit, TRUE), LAMBDA stored :
          Result([Logged(stored.fs, "w:master") EXCEPT !.master = stored.ret \o <<10>>],
                 stored.ret, NoErr))))

(***************************************************************************)
(* Spec: one repository, from init on.  The user writes and removes files  *)
(* of the working directory and runs add, commit, status, diff, ls-files   *)
(* and write_tree.  commits lists, for each commit that returned, the      *)
(* digest it returned and the digest write_tree gave it.                   *)
(***************************************************************************)
\* How many commands of the program a run issues; the user's own writes and
\* removals of files are not counted.
MaxCommands == 3

Unused == <<>>

\* The file system init() leaves, with an empty working directory.
EmptyFS == [workdir |-> <<>>, objects |-> <<>>, index |-> NoFile,
            master |-> NoFile, io |-> <<>>]

\* 'a', 'b' and 'd/f'.
PathA == <<97>>
PathB == <<98>>
PathDF == <<100, 47, 102>>
WorkPaths == { PathA, PathB, PathDF }

\* What the user writes to a file: 'x\n' or 'y\n' to a, 'x\n' to the others.
Contents(p) == IF p = PathA THEN { <<120, 10>>, <<121, 10>> } ELSE { <<120, 10>> }

\* The path lists add is run on: one path, two paths out of order, and the
\* same path twice.
AddLists == { <<PathA>>, <<PathDF>>, <<PathB, PathA>>, <<PathA, PathA>> }

\* 'm'
Messages == { <<109>> }
Authors == { None }
Timestamps == { 1700000000 }
\* time.timezone of UTC+8.
Timezones == { -28800 }

Init ==
    /\ workdir = <<>>
    /\ objects = <<>>
    /\ index = NoFile
    /\ master = NoFile
    /\ cmd = "init"
    /\ args = Unused
    /\ ret = Unused
    /\ err = NoErr
    /\ io = <<>>
    /\ commits = <<>>
    /\ ncmds = 0

\* The user's own step: nothing of the program runs.
Edited ==
    /\ cmd' = "edit"
    /\ args' = Unused
    /\ ret' = Unused
    /\ err' = NoErr
    /\ io' = <<>>
    /\ UNCHANGED <<objects, index, master, commits, ncmds>>

WriteFile(p, data) ==
    /\ IF p \in DOMAIN workdir THEN workdir[p].data # data ELSE TRUE
    /\ workdir' = [q \in (DOMAIN workdir) \cup {p} |->
                      IF q = p THEN [data |-> data, mode |-> 33188] ELSE workdir[q]]
    /\ Edited

RemoveFile(p) ==
    /\ p \in DOMAIN workdir
    /\ workdir' = [q \in (DOMAIN workdir) \ {p} |-> workdir[q]]
    /\ Edited

\* What a command leaves: the file system, and what it returned or raised.
Ran(name, a, r) ==
    /\ ncmds < MaxCommands
    /\ ncmds' = ncmds + 1
    /\ cmd' = name
    /\ args' = a
    /\ ret' = r.ret
    /\ err' = r.err
    /\ io' = r.fs.io
    /\ objects' = r.fs.objects
    /\ index' = r.fs.index
    /\ master' = r.fs.master
    /\ UNCHANGED workdir

Add(paths) ==
    /\ Ran("add", paths, add(FS, paths))
    /\ UNCHANGED commits

Committed(a, r, tree) ==
    /\ Ran("commit", a, r)
    /\ commits' = IF r.err = NoErr
                  THEN Append(commits, [sha1 |-> r.ret, tree |-> tree])
                  ELSE commits

Commit(message, author, timestamp, timezone) ==
    Committed([message |-> message, author |-> author,
               timestamp |-> timestamp, timezone |-> timezone],
              commit(FS, message, author, timestamp, timezone),
              write_tree(FS).ret)

Status ==
    /\ Ran("status", Unused, get_status(FS))
    /\ UNCHANGED commits

Diff ==
    /\ Ran("diff", Unused, diff(FS))
    /\ UNCHANGED commits

LsFiles(details) ==
    /\ Ran("ls-files", details, ls_files(FS, details))
    /\ UNCHANGED commits

WriteTree ==
    /\ Ran("write_tree", Unused, write_tree(FS))
    /\ UNCHANGED commits

Next ==
    \/ \E p \in WorkPaths : \E data \in Contents(p) : WriteFile(p, data)
    \/ \E p \in WorkPaths : RemoveFile(p)
    \/ \E paths \in AddLists : Add(paths)
    \/ \E m \in Messages, a \in Authors, t \in Timestamps, z \in Timezones :
          Commit(m, a, t, z)
    \/ Status
    \/ Diff
    \/ \E details \in BOOLEAN : LsFiles(details)
    \/ WriteTree

Spec == Init /\ [][Next]_vars

(***************************************************************************)
(* SpecObj: the object store alone.  hash-object and read_object commands  *)
(* on a store that starts empty.                                           *)
(***************************************************************************)
\* 'ab' and 'ba' (digests that share a prefix) and 'c'.
ObjData == { <<97, 98>>, <<98, 97>>, <<99>> }
ObjKinds == { B_blob, B_tree }

ObjDigests == { hash_object(EmptyFS, d, k, FALSE).ret : d \in ObjData, k \in ObjKinds }

\* The prefixes read_object is asked for: those of the digests the universe
\* can store, cut to a few lengths, and too-short ones.
ObjPrefixes ==
    { Slice(h, 0, n) : h \in ObjDigests, n \in {1, 2, 3, 5, 40} }

InitObj ==
    /\ workdir = <<>>
    /\ objects = <<>>
    /\ index = NoFile
    /\ master = NoFile
    /\ cmd = "init"
    /\ args = Unused
    /\ ret = Unused
    /\ err = NoErr
    /\ io = <<>>
    /\ commits = <<>>
    /\ ncmds = 0

HashObject(data, object_type, write) ==
    LET r == hash_object(FS, data, object_type, write)
    IN /\ cmd' = "hash-object"
       /\ args' = [data |-> data, object_type |-> object_type, write |-> write]
       /\ ret' = r.ret
       /\ err' = r.err
       /\ io' = r.fs.io
       /\ objects' = r.fs.objects
       /\ UNCHANGED <<workdir, index, master, commits, ncmds>>

ReadObject(sha1_prefix) ==
    LET r == read_object(FS, sha1_prefix)
    IN /\ cmd' = "read_object"
       /\ args' = sha1_prefix
       /\ ret' = r.ret
       /\ err' = r.err
       /\ io' = r.fs.io
       /\ UNCHANGED <<workdir, objects, index, master, commits, ncmds>>

NextObj ==
    \/ \E d \in ObjData, k \in ObjKinds, w \in BOOLEAN : HashObject(d, k, w)
    \/ \E p \in ObjPrefixes : ReadObject(p)

SpecObj == InitObj /\ [][NextObj]_vars

(***************************************************************************)
(* SpecIndex: write_index followed by read_index, on entry lists that are  *)
(* sorted by path, with one entry per path.                                *)
(***************************************************************************)
\* The longest path of the small entries, and the most entries of a list.
MaxPathLen == 9
MaxIndexEntries == 2
\* The longest path add accepts: flags < (1 << 12).
MaxPathBytes == 4095

\* Two sets of field values: what add records for a file, and the extremes
\* (zeros, the largest numbers of the model, null and 0xff digest bytes,
\* stage bits set in flags).
IndexEntryOf(path, variant) ==
    IF variant = 1
    THEN [ctime_s |-> 1700000000, ctime_n |-> 0, mtime_s |-> 1700000001,
          mtime_n |-> 0, dev |-> 2049, ino |-> 4096 + Len(path), mode |-> 33188,
          uid |-> 1000, gid |-> 1000, size |-> 3,
          sha1 |-> [k \in 1..20 |-> 16 * k + 1], flags |-> Len(path), path |-> path]
    ELSE [ctime_s |-> 0, ctime_n |-> 2147483647, mtime_s |-> 0,
          mtime_n |-> 255, dev |-> 0, ino |-> 256, mode |-> 33261,
          uid |-> 0, gid |-> 65536, size |-> 0,
          sha1 |-> [k \in 1..20 |-> IF k % 2 = 0 THEN 0 ELSE 255],
          flags |-> 12288 + Len(path), path |-> path]

\* 'a', 'aa', ... and 'b'.
IndexPaths == {Repeat(97, n) : n \in 1..MaxPathLen} \cup {<<98>>}

IndexEntryPool == {IndexEntryOf(p, v) : p \in IndexPaths, v \in {1, 2}}

RECURSIVE SortedLists(_)
SortedLists(n) ==
    IF n = 0 THEN {<<>>}
    ELSE LET shorter == SortedLists(n - 1)
         IN shorter \cup
            {Append(l, e) : l \in {x \in shorter : Len(x) = n - 1}, e \in IndexEntryPool}

IsSortedByPath(entries) ==
    \A k \in 1..(Len(entries) - 1) : Less(entries[k].path, entries[k + 1].path)

IndexInputs ==
    {l \in SortedLists(MaxIndexEntries) : IsSortedByPath(l)}
    \cup {<<IndexEntryOf(Repeat(97, MaxPathBytes), 1)>>}

InitIndex ==
    /\ workdir = <<>>
    /\ objects = <<>>
    /\ index = NoFile
    /\ master = NoFile
    /\ cmd = "init"
    /\ args \in IndexInputs
    /\ ret = Unused
    /\ err = NoErr
    /\ io = <<>>
    /\ commits = <<>>
    /\ ncmds = 0

WriteIndex ==
    /\ cmd = "init"
    /\ LET r == write_index(FS, args)
       IN /\ cmd' = "write_index"
          /\ index' = r.fs.index
          /\ ret' = r.ret
          /\ err' = r.err
          /\ io' = r.fs.io
    /\ UNCHANGED <<workdir, objects, master, args, commits, ncmds>>

ReadIndex ==
    /\ cmd = "write_index"
    /\ LET r == read_index(FS)
       IN /\ cmd' = "read_index"
          /\ ret' = r.ret
          /\ err' = r.err
          /\ io' = r.fs.io
    /\ UNCHANGED <<workdir, objects, index, master, args, commits, ncmds>>

NextIndex == WriteIndex \/ ReadIndex

SpecIndex == InitIndex /\ [][NextIndex]_vars

(***************************************************************************)
(* SpecTree: the payload write_tree builds for a list of entries, and      *)
(* read_tree on that payload.                                              *)
(***************************************************************************)
\* The most entries of a small list.
MaxTreeLen == 2

\* 'a', 'b c' and 'd/f'.
TreePaths == { <<97>>, <<98, 32, 99>>, <<100, 47, 102>> }
\* 0o100644 and 0o40000.
TreeModes == { 33188, 16384 }
TreeDigests == { [k \in 1..20 |-> 16 * k + 1], [k \in 1..20 |-> IF k % 2 = 0 THEN 0 ELSE 255] }

TreeEntryPool == {[mode |-> m, path |-> p, sha1 |-> d] :
                    m \in TreeModes, p \in TreePaths, d \in TreeDigests}

RECURSIVE TreeLists(_)
TreeLists(n) ==
    IF n = 0 THEN {<<>>}
    ELSE LET shorter == TreeLists(n - 1)
         IN shorter \cup
            {Append(l, e) : l \in {x \in shorter : Len(x) = n - 1}, e \in TreeEntryPool}

\* One entry more than read_tree scans: the files '1', '2', ...
LongTree ==
    [k \in 1..(MaxTreeEntries + 1) |->
        [mode |-> 33188, path |-> Decimal(k), sha1 |-> [j \in 1..20 |-> (k + j) % 256]]]

TreeInputs == TreeLists(MaxTreeLen) \cup {LongTree}

InitTree ==
    /\ workdir = <<>>
    /\ objects = <<>>
    /\ index = NoFile
    /\ master = NoFile
    /\ cmd = "init"
    /\ args \in TreeInputs
    /\ ret = Unused
    /\ err = NoErr
    /\ io = <<>>
    /\ commits = <<>>
    /\ ncmds = 0

TreePayload ==
    /\ cmd = "init"
    /\ LET r == tree_payload(args)
       IN /\ cmd' = "tree_payload"
          /\ ret' = r.ret
          /\ err' = r.err
    /\ UNCHANGED <<workdir, objects, index, master, args, io, commits, ncmds>>

ReadTree ==
    /\ cmd = "tree_payload"
    /\ err = NoErr
    /\ LET r == read_tree_data(ret)
       IN /\ cmd' = "read_tree"
          /\ ret' = r.ret
          /\ err' = r.err
    /\ UNCHANGED <<workdir, objects, index, master, args, io, commits, ncmds>>

NextTree == TreePayload \/ ReadTree

SpecTree == InitTree /\ [][NextTree]_vars

(***************************************************************************)
(* The properties.                                                         *)
(***************************************************************************)
Elems(s) == {s[k] : k \in 1..Len(s)}

Count(s, e) == Cardinality({k \in 1..Len(s) : s[k] = e})

Ascending(s) == \A k \in 1..(Len(s) - 1) : Less(s[k], s[k + 1])

\* The lines of the commit object of digest sha1 that come before the empty
\* line that ends its header.
HeaderLines(sha1) ==
    LET lines == SplitLines(read_object(FS, sha1).ret.data)
        blank == Min({k \in 1..Len(lines) : lines[k] = <<>>})
    IN SubSeq(lines, 1, blank - 1)

ParentLines(sha1) ==
    LET header == HeaderLines(sha1)
    IN {k \in 1..Len(header) : StartsWith(header[k], B_parent_sp)}

\* C1: in a run of commits from a repository without a master ref, the
\* first commit object has no parent line, every later one has exactly the
\* parent line 'parent <d>' with d the digest the commit before it returned,
\* and once a commit has returned the master ref names the digest of the
\* latest commit: the file holds that digest and a line feed, and
\* get_local_master_hash reads the digest back.  Before the first commit
\* there is no ref.
C1_CommitChain ==
    /\ \A k \in 1..Len(commits) :
          /\ read_object(FS, commits[k].sha1).err = NoErr
          /\ read_object(FS, commits[k].sha1).ret.obj_type = B_commit
          /\ IF k = 1
             THEN ParentLines(commits[k].sha1) = {}
             ELSE /\ Cardinality(ParentLines(commits[k].sha1)) = 1
                  /\ \E i \in ParentLines(commits[k].sha1) :
                        HeaderLines(commits[k].sha1)[i]
                            = B_parent_sp \o commits[k - 1].sha1
    /\ IF commits = <<>>
       THEN master = NoFile
       ELSE /\ master = commits[Len(commits)].sha1 \o <<10>>
            /\ get_local_master_hash(FS).ret = commits[Len(commits)].sha1
    /\ (cmd = "commit" /\ err = NoErr) =>
          /\ commits # <<>>
          /\ ret = commits[Len(commits)].sha1

\* Two commits have returned, the second on an index that differs from the
\* one the first one saw.
C1_Witness ==
    /\ cmd = "commit"
    /\ err = NoErr
    /\ Len(commits) >= 2
    /\ commits[Len(commits)].tree # commits[Len(commits) - 1].tree

B_tree_sp == B_tree \o <<32>>

\* C2: every commit object has exactly one tree line, of the form
\* 'tree <digest>' (the field name, one space, the digest), and the digest
\* is the one write_tree gave for the index the commit was made on, the
\* digest of a tree object of the store.
C2_OneTreeLine ==
    \A k \in 1..Len(commits) :
        LET header == HeaderLines(commits[k].sha1)
            tree_lines == {i \in 1..Len(header) : StartsWith(header[i], B_tree)}
        IN /\ Cardinality(tree_lines) = 1
           /\ \A i \in tree_lines : header[i] = B_tree_sp \o commits[k].tree
           /\ read_object(FS, commits[k].tree).err = NoErr
           /\ read_object(FS, commits[k].tree).ret.obj_type = B_tree

\* C3: after every add that returned, the entries of the index are sorted by
\* path and no two of them have the same path.
C3_SortedUnique ==
    (cmd = "add" /\ err = NoErr) =>
        /\ read_index(FS).err = NoErr
        /\ LET entries == read_index(FS).ret
           IN \A k \in 1..(Len(entries) - 1) :
                 Less(entries[k].path, entries[k + 1].path)

\* What get_status is to return, from the specification's words: the paths on disk,
\* the paths of the index, and the blob digest of a file's bytes.
LivePaths == DOMAIN workdir
IndexedPaths == {e.path : e \in Elems(read_index(FS).ret)}
RecordedDigests(p) == {Hex(e.sha1) : e \in {x \in Elems(read_index(FS).ret) : x.path = p}}
LiveDigest(p) ==
    Hex(Sha1(B_blob \o <<32>> \o Decimal(Len(workdir[p].data)) \o <<0>> \o workdir[p].data))

\* C4: get_status returns changed, new and deleted, where changed holds
\* exactly the paths on disk and in the index whose live blob digest differs
\* from the recorded one, new exactly the paths on disk that the index lacks,
\* deleted exactly the paths of the index that are not on disk; each list is
\* in ascending order without repeats and no path is in two of them.
C4_Status ==
    cmd = "status" =>
        /\ err = NoErr
        /\ Elems(ret.changed)
              = {p \in LivePaths \cap IndexedPaths : LiveDigest(p) \notin RecordedDigests(p)}
        /\ Elems(ret.new) = LivePaths \ IndexedPaths
        /\ Elems(ret.deleted) = IndexedPaths \ LivePaths
        /\ Ascending(ret.changed) /\ Ascending(ret.new) /\ Ascending(ret.deleted)
        /\ Elems(ret.changed) \cap Elems(ret.new) = {}
        /\ Elems(ret.changed) \cap Elems(ret.deleted) = {}
        /\ Elems(ret.new) \cap Elems(ret.deleted) = {}

\* A status with a changed, a new and a deleted path at once.
C4_Witness ==
    /\ cmd = "status"
    /\ ret.changed # <<>>
    /\ ret.new # <<>>
    /\ ret.deleted # <<>>

\* C5: a hash_object with write=True returns the digest of its kind and
\* payload, the same at every call, and leaves the object of that digest in
\* the store; where the store held the digest already the call writes
\* nothing, and no call changes or removes an object the store holds.
C5_Idempotent ==
    [][(cmd' = "hash-object" /\ args'.write) =>
          LET full_data == args'.object_type \o <<32>> \o Decimal(Len(args'.data))
                           \o <<0>> \o args'.data
          IN /\ err' = NoErr
             /\ ret' = Hex(Sha1(full_data))
             /\ DOMAIN objects' = DOMAIN objects \cup {ret'}
             /\ Decompress(objects'[ret']) = full_data
             /\ \A h \in DOMAIN objects : objects'[h] = objects[h]
             /\ ret' \in DOMAIN objects =>
                   /\ objects' = objects
                   /\ Count(io', "w:objects") = 0
             /\ ret' \notin DOMAIN objects => Count(io', "w:objects") = 1
      ]_vars

\* A hash_object with write=True of an object the store held already.
C5_Witness ==
    /\ cmd = "hash-object"
    /\ args.write
    /\ ret \in DOMAIN objects
    /\ Count(io, "w:objects") = 0

\* C6: read_object fails with the error of a prefix that is too short when
\* the prefix has fewer than 2 characters, with the error of several matches
\* when two or more stored digests start with the prefix, with the error of
\* an object not found when no stored digest starts with it (the case that
\* no stored digest has its first two characters included), and returns the
\* kind and payload of the one object that matches otherwise.
C6_ReadObject ==
    cmd = "read_object" =>
        LET matches == {h \in DOMAIN objects : StartsWith(h, args)}
        IN IF Len(args) < 2
           THEN err = "ValueError: hash prefix must be 2 or more characters"
           ELSE IF Cardinality(matches) >= 2
           THEN err = "ValueError: multiple objects with prefix"
           ELSE IF matches = {}
           THEN err = "ValueError: object not found"
           ELSE /\ err = NoErr
                /\ \A h \in matches :
                      ret.obj_type \o <<32>> \o Decimal(Len(ret.data)) \o <<0>> \o ret.data
                          = Decompress(objects[h])

\* The offset in the entry data of the index of entry k of entries, each
\* entry taking the least multiple of 8 bytes that leaves a null after its
\* path.
RECURSIVE EntryOffset(_, _)
EntryOffset(entries, k) ==
    IF k = 1 THEN 12
    ELSE EntryOffset(entries, k - 1)
         + 8 * ((62 + Len(entries[k - 1].path)) \div 8) + 8

\* C7: write_index of a list of entries sorted by path, then read_index,
\* gives the list back; in the file every entry begins at a multiple of 8
\* bytes from the first, its path is followed by 1 to 8 null bytes that fill
\* it up to the next entry, and the 20 bytes of the checksum end the file.
C7_RoundTrip ==
    /\ cmd = "read_index" => (err = NoErr /\ ret = args)
    /\ cmd \in {"write_index", "read_index"} =>
          /\ Len(index) = EntryOffset(args, Len(args) + 1) + 20
          /\ \A k \in 1..Len(args) :
                LET start == EntryOffset(args, k)
                    stop == EntryOffset(args, k + 1)
                    path_end == start + 62 + Len(args[k].path)
                IN /\ (stop - start) % 8 = 0
                   /\ Slice(index, start + 62, path_end) = args[k].path
                   /\ stop - path_end \in 1..8
                   /\ \A i \in path_end..(stop - 1) : index[i + 1] = 0

\* An index of two or more entries written and read back.
C7_Witness ==
    /\ cmd = "read_index"
    /\ Len(args) >= 2
    /\ Len(ret) = Len(args)

\* C8: read_tree of the payload write_tree builds for a list of entries with
\* flat paths returns the mode, path and digest of every entry, in order.
C8_TreeRoundTrip ==
    cmd = "read_tree" =>
        /\ err = NoErr
        /\ ret = [k \in 1..Len(args) |->
                    <<args[k].mode, args[k].path, Hex(args[k].sha1)>>]

\* C9: read_tree of a payload of more entries than it scans raises an error
\* and returns no partial list.
C9_CapRaises ==
    (cmd = "read_tree" /\ Len(args) > MaxTreeEntries) => err # NoErr

IndexCommands == {"add", "commit", "status", "diff", "ls-files", "write_tree"}

ReadAfterWrite(s) ==
    \E i \in 1..Len(s) : \E j \in (i + 1)..Len(s) : s[i] = "w:index" /\ s[j] = "r:index"

\* C10 as stated: a command (add, commit, status, diff, ls-files, write_tree)
\* reads the index at most once, writes it at most once, and reads it at no
\* point after it wrote it.
C10_OncePerCommand ==
    cmd \in IndexCommands =>
        /\ Count(io, "r:index") <= 1
        /\ Count(io, "w:index") <= 1
        /\ ~ReadAfterWrite(io)

\* C10, amended: add, commit, status, ls-files and write_tree read the index
\* at most once, write it at most once and read it at no point after they
\* wrote it; a diff that returns has read the index twice, once in
\* get_status and once itself, and diff never writes it.
C10_OnceButDiff ==
    /\ cmd \in (IndexCommands \ {"diff"}) =>
          /\ Count(io, "r:index") <= 1
          /\ Count(io, "w:index") <= 1
          /\ ~ReadAfterWrite(io)
    /\ cmd = "diff" =>
          /\ Count(io, "r:index") <= 2
          /\ err = NoErr => Count(io, "r:index") = 2
          /\ Count(io, "w:index") = 0

\* An add that returned: it opened the index once to read it and then once
\* to write it.
C10_Witness ==
    /\ cmd = "add"
    /\ err = NoErr
    /\ Count(io, "r:index") = 1
    /\ Count(io, "w:index") = 1
    /\ io[1] = "r:index"
    /\ io[Len(io)] = "w:index"

====
